---- MODULE Spec2Model ----
(***************************************************************************)
(* The worm interpreter of src/src/main.rs (SandWormInterpreter): a grid   *)
(* of bytes, a worm (head, body, direction), the two transfer queues       *)
(* worm_in / worm_out, the input and output buffers and the execution      *)
(* state.  Coordinates are <<col, row>> as in the source ((usize, usize),  *)
(* .0 = col, .1 = row); rows and columns are numbered from 0.              *)
(***************************************************************************)
EXTENDS Integers, Sequences, FiniteSets, TLC

(* ------------------------------ bounds --------------------------------- *)
\* longest one-line source text over the whole Alphabet
MaxSrc == 3
\* longest one-line source text over CoreAlphabet
MaxLine == 4
\* most lines, and most bytes over all lines, of a source text over
\* SteerAlphabet
MaxRows == 2
MaxGrid == 4
\* most bytes the input buffer holds (start-up file plus driver appends)
MaxInput == 1
\* most step_once calls made while Running, and most made after the end
MaxSteps == 6
MaxIdle == 2
\* largest n of a step(n) command
MaxN == 2
\* longest one-line source text over QueryAlphabet, and most bytes the
\* input buffer holds in the runs of such a text
MaxQuery == 4
MaxFeed == 2
\* longest run of bytes after the @ of a one-line source text over
\* ArithAlphabet
MaxArith == 5

(* --------------------------- program constants ------------------------- *)
\* usize::MAX, the value 0usize.wrapping_sub(1) yields.  TLC's integers are
\* 32 bits wide, so the largest of them stands for it; the code only
\* compares it with width and height.
UsizeMax == 2147483647
NUL == 0
SPACE == 32
BANG == 33
QUOTE == 34
PLUS == 43
MINUS == 45
SLASH == 47
ZERO == 48
FIVE == 53
NINE == 57
LT == 60
EQ == 61
GT == 62
QUERY == 63
AT == 64
BACKSLASH == 92
CARET == 94
UNDERSCORE == 95
LOWER_V == 118

(* ------------------------------ helpers -------------------------------- *)
\* Vec::last / the element Vec::pop removes
Last(s) == s[Len(s)]
\* what is left of a Vec after pop
Front(s) == SubSeq(s, 1, Len(s) - 1)

\* sequences over S of length at most n
BSeq(S, n) == UNION {[1..m -> S] : m \in 0..n}

Max(a, b) == IF a >= b THEN a ELSE b

(* ------------------------------- parse --------------------------------- *)
RECURSIVE MaxWidth(_)
MaxWidth(ls) == IF ls = <<>> THEN 0 ELSE Max(Len(Head(ls)), MaxWidth(Tail(ls)))

\* line.find('@'): the 0-based column of the first '@' of the line, -1 for None
find(line) ==
  IF \E i \in 1..Len(line) : line[i] = AT
  THEN (CHOOSE i \in 1..Len(line) :
          line[i] = AT /\ \A j \in 1..(i - 1) : line[j] # AT) - 1
  ELSE -1

\* start_pos after the first loop of parse: the last row holding an '@' wins
start_pos(source) ==
  LET rows == {r \in 1..Len(source) : find(source[r]) >= 0}
  IN  IF rows = {} THEN <<0, 0>>
      ELSE LET r == CHOOSE x \in rows : \A y \in rows : y <= x
           IN  <<find(source[r]), r - 1>>

\* parse: rows are the lines' bytes, resized to the widest line with 0
parse(source) ==
  LET w == MaxWidth(source)
  IN  [program |-> [r \in 0..(Len(source) - 1) |->
                      [c \in 0..(w - 1) |->
                         IF c + 1 <= Len(source[r + 1])
                         THEN source[r + 1][c + 1] ELSE NUL]],
       start_pos |-> start_pos(source)]

(* --------------------------- the interpreter --------------------------- *)
\* SandWormInterpreter::new.  enq and fills are history: the bytes inserted
\* into worm_out so far, and the refills of vacated cells so far.
new(source, inp) ==
  LET p == parse(source)
  IN  [program |-> p.program,
       width |-> MaxWidth(source),
       height |-> Len(source),
       worm |-> <<>>,
       worm_head |-> p.start_pos,
       worm_in |-> <<>>,
       worm_out |-> <<>>,
       input |-> inp,
       output |-> <<>>,
       state |-> "Running",
       direction |-> "Right",
       input_index |-> 0,
       enq |-> <<>>,
       fills |-> <<>>]

get(self, pos) == self.program[pos[2]][pos[1]]

\* *self.get_mut(pos) = v
put(self, pos, v) ==
  [self EXCEPT !.program = [@ EXCEPT ![pos[2]] = [@ EXCEPT ![pos[1]] = v]]]

\* saturating_sub in place of wrapping_sub: the top and left edges are not left
wrapping_sub1_saturating(x) == IF x = 0 THEN 0 ELSE x - 1

wrapping_sub1(x) == IF x = 0 THEN UsizeMax ELSE x - 1
saturating_add1(x) == IF x = UsizeMax THEN UsizeMax ELSE x + 1

front(self) ==
  LET h == self.worm_head
  IN  CASE self.direction = "Up" -> <<h[1], wrapping_sub1(h[2])>>
        [] self.direction = "Down" -> <<h[1], saturating_add1(h[2])>>
        [] self.direction = "Left" -> <<wrapping_sub1(h[1]), h[2]>>
        [] self.direction = "Right" -> <<saturating_add1(h[1]), h[2]>>

\* self.worm_out.insert(0, b): index 1 of the sequence is index 0 of the Vec
enqueue(self, b) ==
  [self EXCEPT !.worm_out = <<b>> \o @, !.enq = Append(@, b)]

\* refill that takes the byte at index 0 of worm_out (Vec::remove(0)), the
\* end insert(0, _) writes to
refill_newest(self, next) ==
  LET had == self.worm_out # <<>>
      b == IF had THEN Head(self.worm_out) ELSE SPACE
      s1 == put(self, next, b)
  IN  [s1 EXCEPT !.worm_out = IF had THEN Tail(@) ELSE @,
                 !.fills = Append(@, [byte |-> b, qlen |-> Len(self.worm_out),
                                      at |-> next])]

\* *self.get_mut(next) = self.worm_out.pop().unwrap_or(b' '); the history
\* notes the byte written, the length of worm_out before the pop and the cell
refill(self, next) ==
  LET had == self.worm_out # <<>>
      b == IF had THEN Last(self.worm_out) ELSE SPACE
      s1 == put(self, next, b)
  IN  [s1 EXCEPT !.worm_out = IF had THEN Front(@) ELSE @,
                 !.fills = Append(@, [byte |-> b, qlen |-> Len(self.worm_out),
                                      at |-> next])]

\* for body_segment in self.worm.iter_mut().rev() { program[next] =
\* program[body_segment]; (*body_segment, next) = (next, *body_segment) }
\* from segment i down to segment 1; the result carries the final next
RECURSIVE shift(_, _, _)
shift(self, i, next) ==
  IF i = 0 THEN [self |-> self, next |-> next]
  ELSE LET seg == self.worm[i]
           s1 == put(self, next, get(self, seg))
       IN  shift([s1 EXCEPT !.worm[i] = next], i - 1, seg)

\* shrink that reads the neck value as Vec::last does, without the pop
shrink_peek(self) ==
  [self |-> self,
   ret |-> IF self.worm # <<>> THEN get(self, Last(self.worm)) ELSE 0]

\* shrink that pops the neck and leaves the other segments where they are
shrink_pop(self) ==
  IF self.worm # <<>>
  THEN [self |-> [self EXCEPT !.worm = Front(@)],
        ret |-> get(self, Last(self.worm))]
  ELSE [self |-> self, ret |-> 0]

shrink(self) ==
  IF self.worm # <<>>
  THEN LET neck == Last(self.worm)
           s1 == [self EXCEPT !.worm = Front(@)]
           ret == get(s1, neck)
           sh == shift(s1, Len(s1.worm), neck)
       IN  [self |-> refill(sh.self, sh.next), ret |-> ret]
  ELSE [self |-> self, ret |-> 0]

\* move_to without the assignment of front to worm_head
move_to_stay(self, fr) ==
  LET moved ==
        IF self.worm_in # <<>>
        THEN LET inp == Last(self.worm_in)
                 s1 == put([self EXCEPT !.worm_in = Front(@)], self.worm_head, inp)
             IN  [s1 EXCEPT !.worm = Append(@, self.worm_head)]
        ELSE LET sh == shift(self, Len(self.worm), self.worm_head)
             IN  refill(sh.self, sh.next)
  IN  put(moved, fr, AT)

\* move_to to the cell in front of the head after the match, in place of
\* the front taken before it
move_to_turned(self, fr) ==
  LET to == front(self)
      moved ==
        IF self.worm_in # <<>>
        THEN LET inp == Last(self.worm_in)
                 s1 == put([self EXCEPT !.worm_in = Front(@)], self.worm_head, inp)
             IN  [s1 EXCEPT !.worm = Append(@, self.worm_head)]
        ELSE LET sh == shift(self, Len(self.worm), self.worm_head)
             IN  refill(sh.self, sh.next)
  IN  put([moved EXCEPT !.worm_head = to], to, AT)

move_to(self, fr) ==
  LET moved ==
        IF self.worm_in # <<>>
        THEN LET inp == Last(self.worm_in)
                 s1 == put([self EXCEPT !.worm_in = Front(@)], self.worm_head, inp)
             IN  [s1 EXCEPT !.worm = Append(@, self.worm_head)]
        ELSE LET sh == shift(self, Len(self.worm), self.worm_head)
             IN  refill(sh.self, sh.next)
  IN  put([moved EXCEPT !.worm_head = fr], fr, AT)

wrapping_add(a, b) == (a + b) % 256
wrapping_sub(a, b) == (a - b + 256) % 256

\* the raw byte in place of its decimal text
to_string_raw(n) == <<n>>

\* n.to_string().as_bytes() for a u8
to_string(n) ==
  IF n < 10 THEN <<ZERO + n>>
  ELSE IF n < 100 THEN <<ZERO + (n \div 10), ZERO + (n % 10)>>
  ELSE <<ZERO + (n \div 100), ZERO + ((n \div 10) % 10), ZERO + (n % 10)>>

push_in(self, v) == [self EXCEPT !.worm_in = Append(@, v)]

\* the b'+' and b'-' arms with the insert into worm_out after the second
\* shrink, where the other arms have it
binary_late(self, instruction) ==
  LET a == shrink(self)
      b == shrink(a.self)
      r == IF instruction = PLUS THEN wrapping_add(a.ret, b.ret)
           ELSE wrapping_sub(a.ret, b.ret)
  IN  push_in(enqueue(b.self, instruction), r)

\* the b'+' and b'-' arms
binary(self, instruction) ==
  LET a == shrink(self)
      s1 == enqueue(a.self, instruction)
      b == shrink(s1)
      r == IF instruction = PLUS THEN wrapping_add(a.ret, b.ret)
           ELSE wrapping_sub(a.ret, b.ret)
  IN  push_in(b.self, r)

\* a b'\\' arm that turns the same way from every direction
turn_back_clockwise(d) ==
  CASE d = "Up" -> "Left" [] d = "Left" -> "Down"
    [] d = "Down" -> "Right" [] d = "Right" -> "Up"

\* the b'\\' arm
turn_back(d) ==
  CASE d = "Up" -> "Left" [] d = "Down" -> "Right"
    [] d = "Left" -> "Up" [] d = "Right" -> "Down"

\* the b'/' arm
turn_slash(d) ==
  CASE d = "Up" -> "Right" [] d = "Down" -> "Left"
    [] d = "Left" -> "Down" [] d = "Right" -> "Up"

\* dont_push_instruction set by the blank arm alone, not by b'+' and b'-'
dont_push_blank(instruction) == instruction \in {SPACE, NUL}

\* dont_push_instruction set by the null arm alone
dont_push_space(instruction) == instruction \in {PLUS, MINUS, NUL}

\* true for the arms that set dont_push_instruction
dont_push(instruction) == instruction \in {PLUS, MINUS, SPACE, NUL}

\* a b'?' arm whose cursor stays where it is when the input is exhausted
query_hold(self) ==
  IF self.input_index < Len(self.input)
  THEN push_in([self EXCEPT !.input_index = @ + 1],
               self.input[self.input_index + 1])
  ELSE push_in(self, 0)

\* the b'?' arm: index input_index of the Vec is index input_index + 1 of
\* the sequence
query(self) ==
  LET val == IF self.input_index < Len(self.input)
             THEN self.input[self.input_index + 1] ELSE 0
  IN  push_in([self EXCEPT !.input_index = @ + 1], val)

\* the match of step_once
dispatch(self, instruction) ==
  CASE instruction \in ZERO..NINE -> push_in(self, instruction - 48)
    [] instruction \in {PLUS, MINUS} -> binary(self, instruction)
    [] instruction = LOWER_V -> [self EXCEPT !.direction = "Down"]
    [] instruction = CARET -> [self EXCEPT !.direction = "Up"]
    [] instruction = LT -> [self EXCEPT !.direction = "Left"]
    [] instruction = GT -> [self EXCEPT !.direction = "Right"]
    [] instruction = QUOTE ->
         LET n == shrink(self)
         IN  [n.self EXCEPT !.output = @ \o to_string(n.ret)]
    [] instruction = BANG ->
         LET n == shrink(self)
         IN  [n.self EXCEPT !.output = Append(@, n.ret)]
    [] instruction = QUERY -> query(self)
    [] instruction = EQ ->
         LET last_val == IF self.worm # <<>> THEN get(self, Last(self.worm)) ELSE 0
         IN  push_in(self, last_val)
    [] instruction = BACKSLASH ->
         LET val == shrink(self)
         IN  IF val.ret # 0
             THEN [val.self EXCEPT !.direction = turn_back(@)] ELSE val.self
    [] instruction = SLASH ->
         LET val == shrink(self)
         IN  IF val.ret # 0
             THEN [val.self EXCEPT !.direction = turn_slash(@)] ELSE val.self
    [] instruction \in {SPACE, NUL} -> self
    [] instruction = UNDERSCORE -> push_in(self, SPACE)
    [] OTHER -> push_in(self, instruction)

\* front.0 >= self.width || front.1 >= self.height
out_of_grid(self, fr) == fr[1] >= self.width \/ fr[2] >= self.height

\* step_once without its early return, which reports each end of the program
\* with a line feed on the output
step_once_unguarded(self) ==
  LET fr == front(self)
  IN  IF out_of_grid(self, fr)
      THEN [self EXCEPT !.state = "EndOfProgram", !.output = Append(@, 10)]
      ELSE LET instruction == get(self, fr)
               s1 == dispatch(self, instruction)
               s2 == IF ~dont_push(instruction)
                     THEN enqueue(s1, instruction) ELSE s1
           IN  move_to(s2, fr)

step_once(self) ==
  IF self.state # "Running" THEN self
  ELSE LET fr == front(self)
       IN  IF out_of_grid(self, fr)
           THEN [self EXCEPT !.state = "EndOfProgram"]
           ELSE LET instruction == get(self, fr)
                    s1 == dispatch(self, instruction)
                    s2 == IF ~dont_push(instruction)
                          THEN enqueue(s1, instruction) ELSE s1
                IN  move_to(s2, fr)

\* the instruction the call of step_once on self dispatches, -1 for none
dispatched(self) ==
  IF self.state = "Running" /\ ~out_of_grid(self, front(self))
  THEN get(self, front(self)) ELSE -1

\* the loop of step, n iterations left: r.self is the interpreter, r.calls
\* the step_once calls made, r.pre the interpreter at the entry of the
\* latest of them and r.instr the byte it dispatched
\* the loop of step over 0..=n in place of 0..n
RECURSIVE loop_inclusive(_, _)
loop_inclusive(r, n) ==
  IF n = -1 \/ r.self.state # "Running" THEN r
  ELSE loop_inclusive([self |-> step_once(r.self), calls |-> r.calls + 1,
                       pre |-> r.self, instr |-> dispatched(r.self)], n - 1)

RECURSIVE loop(_, _)
loop(r, n) ==
  IF n = 0 \/ r.self.state # "Running" THEN r
  ELSE loop([self |-> step_once(r.self), calls |-> r.calls + 1,
             pre |-> r.self, instr |-> dispatched(r.self)], n - 1)

step(self, n) == loop([self |-> self, calls |-> 0], n).self

(* ------------------------------ the model ------------------------------ *)
VARIABLES
  it,      \* the SandWormInterpreter of main
  source,  \* the lines of the source text it was built from
  calls,   \* step_once calls made so far
  pre,     \* the interpreter at the entry of the latest step_once call
  instr,   \* the byte that call dispatched, -1 if it dispatched none
  idle     \* step_once calls made after the state left Running

vars == <<it, source, calls, pre, instr, idle>>

\* the bytes source texts are written in
Alphabet ==
  {AT, ZERO, FIVE, PLUS, MINUS, LOWER_V, CARET, LT, GT, QUOTE, BANG, QUERY,
   EQ, BACKSLASH, SLASH, SPACE, UNDERSCORE}

\* the bytes of the longer one-line programs: values, arithmetic, output
\* and a turn back over the worm's own body
CoreAlphabet == {AT, FIVE, PLUS, MINUS, LT, QUOTE, QUERY, EQ}

\* the bytes of the programs of several lines: the worm steered in two
\* dimensions
SteerAlphabet == {FIVE, LOWER_V, CARET, LT, GT}

\* the bytes of the programs that hold nothing for the worm to execute
PassiveAlphabet == {AT, SPACE}

\* the bytes of the input file and of the driver's input command
InputBytes == {200}
FeedBytes == {100}

\* the texts of at most rows lines and at most budget bytes over A
RECURSIVE Texts(_, _, _)
Texts(A, rows, budget) ==
  IF rows = 0 THEN {<<>>}
  ELSE {<<>>} \cup
       UNION {{<<l>> \o rest : rest \in Texts(A, rows - 1, budget - Len(l))} :
                l \in BSeq(A, budget)}

\* the source texts of the runs: source.lines() yields at least one line
\* (new indexes program[0])
Sources ==
  {<<l>> : l \in BSeq(Alphabet, MaxSrc)}
  \cup {<<l>> : l \in BSeq(CoreAlphabet, MaxLine)}
  \cup (Texts(SteerAlphabet, MaxRows, MaxGrid) \ {<<>>})
  \cup (Texts(PassiveAlphabet, MaxRows, MaxGrid) \ {<<>>})

Init ==
  /\ source \in Sources
  /\ \E inp \in BSeq(InputBytes, MaxInput) : it = new(source, inp)
  /\ calls = 0
  /\ pre = it
  /\ instr = -1
  /\ idle = 0

\* main, [] | ["step"]
StepOnce ==
  /\ IF it.state = "Running" THEN calls - idle < MaxSteps ELSE idle < MaxIdle
  /\ idle' = IF it.state = "Running" THEN idle ELSE idle + 1
  /\ it' = step_once(it)
  /\ pre' = it
  /\ instr' = dispatched(it)
  /\ calls' = calls + 1
  /\ UNCHANGED source

\* main, ["step", num]
Step ==
  \E n \in 0..MaxN :
    /\ calls - idle + n <= MaxSteps
    /\ LET r == loop([self |-> it, calls |-> 0, pre |-> pre, instr |-> instr], n)
       IN  /\ it' = r.self
           /\ calls' = calls + r.calls
           /\ pre' = r.pre
           /\ instr' = r.instr
    /\ UNCHANGED <<source, idle>>

\* main, the "input " command: the rest of the line is appended to the input
Feed ==
  \E text \in BSeq(FeedBytes, MaxInput) :
    /\ Len(it.input) + Len(text) <= MaxInput
    /\ it' = [it EXCEPT !.input = @ \o text]
    /\ UNCHANGED <<source, calls, pre, instr, idle>>

Next == StepOnce \/ Step \/ Feed

Spec == Init /\ [][Next]_vars

\* the bytes of the programs that read the input: reading, copying and
\* writing out a byte, and a turn back over what the worm left behind
QueryAlphabet == {QUERY, EQ, BANG, LT, SPACE}

\* the runs of the programs over QueryAlphabet, with an input of up to
\* MaxFeed bytes from the input file and the driver's input command
InputInit ==
  /\ source \in {<<l>> : l \in BSeq(QueryAlphabet, MaxQuery)}
  /\ \E inp \in BSeq(InputBytes, MaxFeed) : it = new(source, inp)
  /\ calls = 0
  /\ pre = it
  /\ instr = -1
  /\ idle = 0

\* main, the "input " command
InputFeed ==
  \E text \in BSeq(FeedBytes, MaxFeed) :
    /\ Len(it.input) + Len(text) <= MaxFeed
    /\ it' = [it EXCEPT !.input = @ \o text]
    /\ UNCHANGED <<source, calls, pre, instr, idle>>

InputNext == StepOnce \/ Step \/ InputFeed

InputSpec == InputInit /\ [][InputNext]_vars

\* the bytes of the programs that compute: values, the blanks that let the
\* worm drain worm_out, and the two operators
ArithAlphabet == {FIVE, SPACE, PLUS, MINUS}

\* the runs of the one-line programs that start at an @ and go on over
\* ArithAlphabet
ArithInit ==
  /\ source \in {<<<<AT>> \o l>> : l \in BSeq(ArithAlphabet, MaxArith)}
  /\ \E inp \in BSeq(InputBytes, MaxInput) : it = new(source, inp)
  /\ calls = 0
  /\ pre = it
  /\ instr = -1
  /\ idle = 0

ArithSpec == ArithInit /\ [][Next]_vars

\* the source text in which the worm, carrying the value of the byte v (no
\* value if v is a space), meets the byte t while it travels in direction d
Approach(d, v, t) ==
  CASE d = "Right" -> <<<<AT, v, t, SPACE>>>>
    [] d = "Down" -> <<<<AT, v, LOWER_V>>, <<SPACE, SPACE, t>>, <<SPACE, SPACE, SPACE>>>>
    [] d = "Up" -> <<<<SPACE, SPACE, t>>, <<AT, v, CARET>>>>
    [] d = "Left" -> <<<<AT, v, LOWER_V>>, <<t, SPACE, LT>>>>

Directions == {"Up", "Down", "Left", "Right"}

\* the runs of the programs that lead the worm to a \\ or a / from each
\* direction, with a neck value that is zero, not zero, or with no body
TurnInit ==
  /\ source \in {Approach(d, v, t) : d \in Directions, v \in {ZERO, FIVE, SPACE},
                                      t \in {BACKSLASH, SLASH}}
  /\ \E inp \in BSeq(InputBytes, MaxInput) : it = new(source, inp)
  /\ calls = 0
  /\ pre = it
  /\ instr = -1
  /\ idle = 0

TurnSpec == TurnInit /\ [][Next]_vars

(* ------------------------------ the claims ----------------------------- *)
\* the interpreter without its input buffer, which the driver may extend
\* between two steps
NoInput(self) == [self EXCEPT !.input = <<>>]

\* a step_once call has been made and it began in the Running state: it is
\* (the driver's appends to the input apart) step_once(pre)
Stepped == calls > 0 /\ pre.state = "Running"

\* as Stepped, and the call moved the worm
Moved == Stepped /\ instr # -1

\* the coordinates of the body of self
Body(self) == {self.worm[i] : i \in 1..Len(self.worm)}

\* C1: once the state is EndOfProgram, a step_once and a step(n) change
\* nothing: grid, head, body, direction, both queues, input cursor, output
\* and state stay as they are.
C1_EndIsNoOp ==
  [][(it.state = "EndOfProgram" /\ (StepOnce \/ Step)) => it' = it]_vars

\* C1: two step_once calls were made after the end, with a body and queued
\* bytes that a further step could have touched.
C1_Witness ==
  /\ it.state = "EndOfProgram" /\ idle >= 2
  /\ it.worm # <<>> /\ it.worm_out # <<>> /\ it.output # <<>>

\* the head of self is on an edge of the grid and faces out of it
FacesOut(self) ==
  \/ self.direction = "Up" /\ self.worm_head[2] = 0
  \/ self.direction = "Left" /\ self.worm_head[1] = 0
  \/ self.direction = "Down" /\ self.worm_head[2] = self.height - 1
  \/ self.direction = "Right" /\ self.worm_head[1] = self.width - 1

\* C2: a step_once in the Running state whose head faces out of the grid on
\* any of the four edges dispatches nothing, sets the state to EndOfProgram
\* and changes nothing else.
C2_EdgeEnds ==
  (Stepped /\ FacesOut(pre)) =>
    /\ instr = -1
    /\ NoInput(it) = NoInput([pre EXCEPT !.state = "EndOfProgram"])

\* C2: the worm, with a body, has left the grid over the top edge.
C2_Witness ==
  /\ Stepped /\ pre.direction = "Up" /\ pre.worm_head[2] = 0
  /\ pre.worm # <<>> /\ it.state = "EndOfProgram"

\* C3 as stated: after a step that leaves the state Running the body length
\* differs from its value before the step by 0 or +1.
C3_Original ==
  (Moved /\ it.state = "Running") =>
    Len(it.worm) - Len(pre.worm) \in {0, 1}

\* C3, amended: after a step that leaves the state Running the body length
\* differs from its value before the step by -1, 0 or +1; it is -1 exactly
\* when the instruction is one of " ! \ / on a body that is not empty, or
\* one of + - on a body of two segments or more.
C3_LengthDelta ==
  (Moved /\ it.state = "Running") =>
    /\ Len(it.worm) - Len(pre.worm) \in {-1, 0, 1}
    /\ Len(it.worm) - Len(pre.worm) = -1 <=>
         \/ instr \in {QUOTE, BANG, BACKSLASH, SLASH} /\ Len(pre.worm) >= 1
         \/ instr \in {PLUS, MINUS} /\ Len(pre.worm) >= 2

\* C3: a + on a body of two segments has left a body of one.
C3_Witness ==
  /\ Moved /\ it.state = "Running" /\ instr = PLUS
  /\ Len(pre.worm) = 2 /\ Len(it.worm) = 1

\* C4: the head coordinate is not a member of the body.
C4_HeadNotInBody == it.worm_head \notin Body(it)

\* the head of self lies in the grid
HeadInGrid(self) ==
  self.worm_head[1] < self.width /\ self.worm_head[2] < self.height

\* C5: between steps, from the initial state on, the grid cell at the head
\* coordinate (a grid of width 0 has none) holds the sentinel byte @.
C5_HeadIsSentinel == HeadInGrid(it) => get(it, it.worm_head) = AT

\* the value a + or - is to leave for neck value a and second value b
Arith(instruction, a, b) ==
  IF instruction = PLUS THEN (a + b) % 256 ELSE (a - b + 256) % 256

\* C6: with a body of two segments or more, the neck holding a and the next
\* segment outward b, a step on + leaves (a+b) mod 256 and a step on -
\* leaves (a-b) mod 256 in the cell of the head before the step, and that
\* cell is the new neck.
C6_Arithmetic ==
  (Moved /\ instr \in {PLUS, MINUS} /\ Len(pre.worm) >= 2) =>
    LET n == Len(pre.worm)
        a == get(pre, pre.worm[n])
        b == get(pre, pre.worm[n - 1])
    IN  /\ it.worm # <<>>
        /\ Last(it.worm) = pre.worm_head
        /\ get(it, pre.worm_head) = Arith(instr, a, b)

\* the instructions whose arm begins with a call of shrink
Shrinkers == {PLUS, MINUS, QUOTE, BANG, BACKSLASH, SLASH}

\* C7: shrink on a body p1..pn (n >= 1) holding v1..vn returns vn, leaves
\* the head where it is and the body as p2..pn holding v1..v(n-1), with p1
\* refilled by the byte dequeued from worm_out (space if it is empty); on an
\* empty body it returns 0 and changes nothing.  Stated of the call of
\* shrink that opens the step of a shrinking instruction.
C7_Shrink ==
  (Moved /\ instr \in Shrinkers) =>
    LET n == Len(pre.worm)
        r == shrink(pre)
    IN  IF n = 0 THEN r.ret = 0 /\ r.self = pre
        ELSE /\ r.ret = get(pre, pre.worm[n])
             /\ r.self.worm_head = pre.worm_head
             /\ r.self.worm = SubSeq(pre.worm, 2, n)
             /\ \A i \in 1..(n - 1) :
                  get(r.self, pre.worm[i + 1]) = get(pre, pre.worm[i])
             /\ get(r.self, pre.worm[1]) =
                  IF pre.worm_out # <<>> THEN Last(pre.worm_out) ELSE SPACE
             /\ r.self.worm_out =
                  IF pre.worm_out # <<>> THEN Front(pre.worm_out) ELSE <<>>

\* a refill that found a byte in worm_out
Dequeued(f) == f.qlen > 0

RECURSIVE Reverse(_)
Reverse(q) == IF q = <<>> THEN <<>> ELSE Append(Reverse(Tail(q)), Head(q))

\* C8: the bytes dequeued from worm_out to refill vacated cells are, in
\* order, a prefix of the bytes enqueued; what is left of the enqueued bytes
\* is the queue; and a refill writes a space only in place of a byte the
\* empty queue does not have.
C8_Fifo ==
  LET d == SelectSeq(it.fills, Dequeued)
  IN  /\ Len(d) <= Len(it.enq)
      /\ \A i \in 1..Len(d) : d[i].byte = it.enq[i]
      /\ Reverse(it.worm_out) = SubSeq(it.enq, Len(d) + 1, Len(it.enq))
      /\ \A i \in 1..Len(it.fills) :
           it.fills[i].qlen = 0 => it.fills[i].byte = SPACE

\* C8: two different bytes waited in the queue together and both have been
\* dequeued, and a refill of an empty queue has written a space.
C8_Witness ==
  /\ \E i, j \in 1..Len(it.fills) :
       /\ i < j /\ it.fills[i].qlen >= 2 /\ it.fills[j].qlen >= 1
       /\ it.fills[i].byte # it.fills[j].byte
  /\ \E i \in 1..Len(it.fills) : it.fills[i].qlen = 0

\* C9: a step on _ grows the worm by one segment holding the space byte and
\* enqueues the byte _; a step on a space or a null byte leaves the body
\* length as it is, enqueues nothing and changes neither direction, output
\* nor input cursor.
C9_UnderscoreAndBlank ==
  /\ (Moved /\ instr = UNDERSCORE) =>
       /\ it.worm = Append(pre.worm, pre.worm_head)
       /\ get(it, Last(it.worm)) = SPACE
       /\ it.enq = Append(pre.enq, UNDERSCORE)
       /\ it.worm_out = <<UNDERSCORE>> \o pre.worm_out
  /\ (Moved /\ instr \in {SPACE, NUL}) =>
       /\ Len(it.worm) = Len(pre.worm)
       /\ it.enq = pre.enq
       /\ it.direction = pre.direction
       /\ it.output = pre.output
       /\ it.input_index = pre.input_index

\* C9: a step on a space has slid a worm whose one segment, grown by an
\* earlier step on _, holds the space byte.
C9_Witness ==
  /\ Moved /\ instr = SPACE
  /\ it.enq = <<UNDERSCORE>>
  /\ Len(it.worm) = 1 /\ get(it, it.worm[1]) = SPACE

\* the grid 05" of one row
Example == <<<<ZERO, FIVE, QUOTE>>>>

\* C10: for the grid 05" with the head at column 0, after three step_once
\* calls the output is the one byte 5 (ASCII), and after a fourth the state
\* is EndOfProgram.
C10_Example ==
  source = Example =>
    /\ calls = 3 => it.output = <<FIVE>>
    /\ calls = 4 => it.state = "EndOfProgram"

\* C10: the fourth call on the grid 05" has been made.
C10_Witness ==
  /\ source = Example /\ calls = 4 /\ it.input = <<>>
  /\ it.output = <<FIVE>> /\ it.state = "EndOfProgram"

\* the grid of src has one @, where the worm starts, and a space in every
\* other cell
Passive(src) ==
  LET s0 == new(src, <<>>)
  IN  /\ s0.width > 0
      /\ \A r \in 0..(s0.height - 1) : \A c \in 0..(s0.width - 1) :
           s0.program[r][c] = IF <<c, r>> = s0.worm_head THEN AT ELSE SPACE

\* step_once calls made so far while the state was Running
Ran == calls - idle

\* C11: on a grid whose cells are all spaces except the starting @, the
\* direction stays Right, at most width step_once calls are made while
\* Running, the call made with the head in the last column ends the program
\* (so width calls always have), and in the terminal state the output, the
\* body, worm_in and worm_out are empty.
C11_PassiveEnds ==
  Passive(source) =>
    /\ it.direction = "Right"
    /\ Ran <= it.width
    /\ Ran >= it.width - new(source, <<>>).worm_head[1] =>
         it.state = "EndOfProgram"
    /\ it.state = "EndOfProgram" =>
         /\ it.output = <<>> /\ it.worm = <<>>
         /\ it.worm_in = <<>> /\ it.worm_out = <<>>

\* C11: a grid of two rows of spaces with the @ in the first column of the
\* second row has been run to its end.
C11_Witness ==
  /\ Passive(source) /\ it.height = 2 /\ it.width = 2
  /\ new(source, <<>>).worm_head = <<0, 1>>
  /\ it.state = "EndOfProgram" /\ Ran = 2 /\ idle >= 1

\* n consecutive calls of step_once on self
RECURSIVE Repeat(_, _)
Repeat(self, n) == IF n = 0 THEN self ELSE Repeat(step_once(self), n - 1)

\* C12: for every n, step(n) ends in the same interpreter (grid, worm,
\* direction, queues, input cursor, output, state) as n consecutive
\* step_once calls; it calls step_once no more than n times, never once the
\* state is terminal, and step(0) changes nothing.
C12_StepIsRepeat ==
  \A n \in 0..(MaxN + 1) :
    LET r == loop([self |-> it, calls |-> 0], n)
    IN  /\ step(it, n) = Repeat(it, n)
        /\ r.calls <= n
        /\ it.state = "EndOfProgram" => r.calls = 0 /\ step(it, n) = it
        /\ n = 0 => step(it, n) = it

\* C12: the worm, with a body, stands one step before the end of the
\* program after earlier steps: a step(2) from here stops after one call.
C12_Witness ==
  /\ Stepped /\ it.state = "Running" /\ it.worm # <<>>
  /\ step_once(it).state = "EndOfProgram"
  /\ loop([self |-> it, calls |-> 0], 2).calls = 1

\* the number of bytes b in the sequence q
RECURSIVE Count(_, _)
Count(b, q) ==
  IF q = <<>> THEN 0
  ELSE (IF Head(q) = b THEN 1 ELSE 0) + Count(b, Tail(q))

\* the ? instructions executed so far: each enqueues its byte, and no other
\* instruction enqueues that byte
Queries(self) == Count(QUERY, self.enq)

\* C13: under any interleaving of steps with appends to the input, the
\* cursor is the number of ? executed so far and no step decreases it (so
\* no index is read twice); the driver only appends to the input; the k-th
\* executed ? moves the cursor from k-1 to k and installs, as the new neck,
\* the byte at index k-1 of the input as it stood at that step, or the zero
\* byte if that input was shorter than k; any other step leaves the cursor.
C13_Cursor ==
  /\ it.input_index = Queries(it)
  /\ Stepped =>
       /\ it.input_index >= pre.input_index
       /\ Len(it.input) >= Len(pre.input)
       /\ SubSeq(it.input, 1, Len(pre.input)) = pre.input
  /\ (Moved /\ instr = QUERY) =>
       LET k == Queries(it)
       IN  /\ pre.input_index = k - 1
           /\ it.input_index = k
           /\ Last(it.worm) = pre.worm_head
           /\ get(it, pre.worm_head) =
                IF Len(pre.input) >= k THEN pre.input[k] ELSE 0
  /\ (Stepped /\ instr # QUERY) => it.input_index = pre.input_index

\* C13: the third ? has read past the end of an input of two bytes, after
\* the first ? had read the byte of the input file and the second the byte
\* the driver appended in between.
C13_Witness ==
  /\ Moved /\ instr = QUERY /\ Queries(it) = 3
  /\ pre.input = <<200, 100>> /\ Len(pre.worm) = 2
  /\ get(pre, pre.worm[1]) = 200 /\ get(pre, pre.worm[2]) = 100
  /\ get(it, pre.worm_head) = 0

\* the instructions whose arm pushes nothing to worm_in, so that move_to
\* slides
NoValue ==
  {LOWER_V, CARET, LT, GT, QUOTE, BANG, BACKSLASH, SLASH, SPACE, NUL}

\* the interpreter as the call of step_once on self hands it to move_to:
\* after the match and the enqueue of the instruction
AtMove(self) ==
  LET instruction == get(self, front(self))
      s1 == dispatch(self, instruction)
  IN  IF ~dont_push(instruction) THEN enqueue(s1, instruction) ELSE s1

\* C14: a step that produces no value, moving from head h with a body
\* p1..pn holding v1..vn, leaves the body as p2..pn,h holding v1..vn in
\* that order and of the same length, with p1 (h itself when the body is
\* empty) refilled by the byte dequeued from worm_out, or a space if the
\* queue is empty.
C14_Slide ==
  (Moved /\ instr \in NoValue) =>
    LET b == AtMove(pre)
        n == Len(b.worm)
        h == pre.worm_head
    IN  /\ Len(it.worm) = n
        /\ it.worm = SubSeq(b.worm, 2, n) \o (IF n > 0 THEN <<h>> ELSE <<>>)
        /\ \A i \in 1..n : get(it, it.worm[i]) = get(b, b.worm[i])
        /\ get(it, IF n > 0 THEN b.worm[1] ELSE h) =
             IF b.worm_out # <<>> THEN Last(b.worm_out) ELSE SPACE
        /\ it.worm_out =
             IF b.worm_out # <<>> THEN Front(b.worm_out) ELSE <<>>

\* C15: a step on + or - enqueues the operator byte exactly once, after the
\* refill of the first shrink and before the refill of the second: the
\* first refill (there is one when the body is not empty) finds worm_out as
\* it was before the step and writes to the tail cell p1, the second (when
\* the body has two segments or more) finds the operator enqueued and
\* writes to p2, and no other refill happens.  So with two segments or more
\* and an empty worm_out before the step, p1 is refilled with a space and
\* p2 with the operator byte.
C15_OperatorEnqueue ==
  (Moved /\ instr \in {PLUS, MINUS}) =>
    LET n == Len(pre.worm)
        q == Len(pre.worm_out)
        f == Len(pre.fills)
        q1 == IF n >= 1 /\ q > 0 THEN q - 1 ELSE q
    IN  /\ it.enq = Append(pre.enq, instr)
        /\ Len(it.fills) = f + (IF n >= 2 THEN 2 ELSE n)
        /\ SubSeq(it.fills, 1, f) = pre.fills
        /\ n >= 1 =>
             /\ it.fills[f + 1].qlen = q
             /\ it.fills[f + 1].at = pre.worm[1]
             /\ q = 0 => it.fills[f + 1].byte = SPACE
        /\ n >= 2 =>
             /\ it.fills[f + 2].qlen = q1 + 1
             /\ it.fills[f + 2].at = pre.worm[2]
             /\ q = 0 => it.fills[f + 2].byte = instr

\* C15: a - has been executed on a body of two segments with an empty
\* worm_out.
C15_Witness ==
  /\ Moved /\ instr = MINUS /\ Len(pre.worm) >= 2 /\ pre.worm_out = <<>>
  /\ it.fills[Len(it.fills)].byte = MINUS
  /\ it.fills[Len(it.fills) - 1].byte = SPACE
  /\ get(it, pre.worm[1]) = SPACE /\ get(it, pre.worm[2]) = MINUS

\* C16: a step on = removes and alters no body segment: every segment of
\* the body before the step keeps its coordinate and its value, the head
\* cell before the step becomes the new neck, and it holds a copy of the
\* value of the neck before the step, or the zero byte if the body was
\* empty.
C16_Duplicate ==
  (Moved /\ instr = EQ) =>
    LET n == Len(pre.worm)
    IN  /\ it.worm = Append(pre.worm, pre.worm_head)
        /\ \A i \in 1..n : get(it, pre.worm[i]) = get(pre, pre.worm[i])
        /\ get(it, pre.worm_head) =
             IF n > 0 THEN get(pre, pre.worm[n]) ELSE 0

\* the direction the claim gives for \ and for / met in direction d
Rotate(instruction, d) ==
  IF instruction = BACKSLASH
  THEN CASE d = "Up" -> "Left" [] d = "Left" -> "Up"
         [] d = "Down" -> "Right" [] d = "Right" -> "Down"
  ELSE CASE d = "Up" -> "Right" [] d = "Right" -> "Up"
         [] d = "Down" -> "Left" [] d = "Left" -> "Down"

\* C17: a step on \ or / changes the direction only when the neck value it
\* shrinks is not zero, and then as the two tables say (each its own
\* inverse); with a zero value or an empty body the direction stays; in
\* every case the head moves to the forward cell of the direction before
\* the step.
C17_Turn ==
  (Moved /\ instr \in {BACKSLASH, SLASH}) =>
    LET n == Len(pre.worm)
        val == IF n > 0 THEN get(pre, pre.worm[n]) ELSE 0
    IN  /\ it.direction =
             IF val # 0 THEN Rotate(instr, pre.direction) ELSE pre.direction
        /\ Rotate(instr, Rotate(instr, pre.direction)) = pre.direction
        /\ it.worm_head = front(pre)

\* C17: a \ met while travelling Left with a neck value that is not zero
\* has turned the worm Up.
C17_Witness ==
  /\ Moved /\ instr = BACKSLASH /\ pre.direction = "Left"
  /\ pre.worm # <<>> /\ get(pre, Last(pre.worm)) # 0
  /\ it.direction = "Up" /\ it.worm_head = front(pre)

\* C18: between steps worm_out holds no more bytes than the body has
\* segments (so it is empty whenever the body is), and worm_in is empty.
C18_Queues ==
  /\ Len(it.worm_out) <= Len(it.worm)
  /\ it.worm_in = <<>>

\* C18: a " has taken a segment off a body of two with two queued bytes,
\* and the refills of its shrink and of its slide have kept the queue as
\* short as the body.
C18_Witness ==
  /\ Moved /\ instr = QUOTE
  /\ Len(pre.worm) = 2 /\ Len(pre.worm_out) = 2
  /\ Len(it.worm) = 1 /\ Len(it.worm_out) = 1

\* pos lies in the grid of self
InGrid(self, pos) == pos[1] < self.width /\ pos[2] < self.height

Abs(x) == IF x < 0 THEN -x ELSE x

\* p and q differ by exactly one in exactly one axis
Adjacent(p, q) == Abs(p[1] - q[1]) + Abs(p[2] - q[2]) = 1

\* C19: the worm is a connected chain inside the grid: every body
\* coordinate lies in [0,width) x [0,height), consecutive body coordinates
\* differ by exactly one in exactly one axis, and the neck is orthogonally
\* adjacent to the head.
C19_Chain ==
  LET n == Len(it.worm)
  IN  /\ \A i \in 1..n : InGrid(it, it.worm[i])
      /\ \A i \in 1..(n - 1) : Adjacent(it.worm[i], it.worm[i + 1])
      /\ n > 0 => Adjacent(it.worm[n], it.worm_head)

\* C19: after a slide the worm lies around a corner: its two segments and
\* its head are three different cells, and the tail and the head differ in
\* both axes.
C19_Witness ==
  /\ Moved /\ instr = NUL /\ it.direction = "Down"
  /\ Len(pre.worm) = 2 /\ Len(it.worm) = 2
  /\ Cardinality(Body(it) \cup {it.worm_head}) = 3
  /\ it.worm[1][1] # it.worm_head[1] /\ it.worm[1][2] # it.worm_head[2]

\* the cells a step of self may write: its head, its body and the cell in
\* front of the head
Footprint(self) == Body(self) \cup {self.worm_head, front(self)}

\* the coordinates of the grid of self
Cells(self) == (0..(self.width - 1)) \X (0..(self.height - 1))

\* C20: a step that does not end the program writes only to the cell of the
\* head before the step, to the cells of the body before the step and to
\* the forward cell: every other cell of the grid keeps its byte; and the
\* width and the height of the grid are those of the grid parse built, in
\* every state.
C20_Frame ==
  /\ Moved =>
       \A p \in Cells(pre) \ Footprint(pre) : get(it, p) = get(pre, p)
  /\ it.width = new(source, <<>>).width
  /\ it.height = new(source, <<>>).height
  /\ DOMAIN it.program = 0..(it.height - 1)
  /\ \A r \in DOMAIN it.program : DOMAIN it.program[r] = 0..(it.width - 1)

\* C20: a step has written to a body cell of a worm of two segments or
\* more, while a cell outside the worm and its forward cell held an
\* instruction byte.
C20_Witness ==
  /\ Moved /\ Len(pre.worm) >= 2
  /\ \E q \in Body(pre) : get(it, q) # get(pre, q)
  /\ \E p \in Cells(pre) \ Footprint(pre) :
       get(pre, p) \notin {NUL, SPACE} /\ get(it, p) = get(pre, p)
====
